---- MODULE Spec2Model ----
(***************************************************************************)
(* A state-machine model of fileVersion.py: line-granular file             *)
(* fingerprinting (FileVersion), snapshot tables (VersionTable) and the    *)
(* read / build / compare / write life cycle of VersionManager, including  *)
(* the process-wide hash provider _HASHOBJ and the with-block protocol.    *)
(*                                                                         *)
(* Abstractions.                                                           *)
(*  - A line is a token in LineContents; the token stands for the line's   *)
(*    bytes including its terminator, so a concatenation of lines is a     *)
(*    sequence of tokens and distinct sequences are distinct byte strings. *)
(*  - A digest is a natural number.  The hash of each algorithm is         *)
(*    injective on byte strings (no collisions), digests of different      *)
(*    algorithms never coincide, and the order of two digests (the order   *)
(*    Python's sorted() gives their hex strings) is unrelated to the order *)
(*    of the lines they come from.                                         *)
(*  - There is one revision file location; its content is a record or      *)
(*    NoRecord.  json.dump / json.load carry the record unchanged (string  *)
(*    keys, integer values, lists).                                        *)
(***************************************************************************)
EXTENDS Integers, Sequences, FiniteSets, TLC

\* ------------------------------------------------------------------ bounds
MaxLines == 2
NumLineContents == 2
MaxEdits == 2

\* ------------------------------------------------------------- vocabulary
PathOrder == <<"a.txt", "b.txt">>
Paths == {PathOrder[i] : i \in 1..Len(PathOrder)}
Algorithms == {"md5", "sha1"}
Managers == {"m1", "m2"}
LineContents == 1..NumLineContents
\* a path with no file behind it; an existing file holds a sequence of lines
Absent == [exists |-> FALSE, lines |-> <<>>]
File(lines) == [exists |-> TRUE, lines |-> lines]
\* Python's None for a dict-valued attribute, and for a digest-valued one
None == [none |-> TRUE]
NoneVersion == -1
\* no revision file at the location; no manager constructed in a slot
NoRecord == [norecord |-> TRUE]
NoManager == [nomanager |-> TRUE]

Range(s) == {s[i] : i \in 1..Len(s)}

RECURSIVE SeqsUpTo(_)
SeqsUpTo(n) ==
  IF n = 0 THEN {<<>>}
  ELSE LET shorter == SeqsUpTo(n - 1)
       IN shorter \cup {Append(s, l) : s \in {t \in shorter : Len(t) = n - 1},
                                       l \in LineContents}

\* the possible states of a path on disk
Contents == {File(lines) : lines \in SeqsUpTo(MaxLines)} \cup {Absent}

\* ------------------------------------------------------------ HashObject
AlgIndex(algorithm) == IF algorithm = "md5" THEN 0 ELSE 1

\* the byte string of a sequence of lines, as a number (injective)
RECURSIVE Enc(_)
Enc(payload) ==
  IF payload = <<>> THEN 0
  ELSE Enc(SubSeq(payload, 1, Len(payload) - 1)) * (NumLineContents + 1)
         + payload[Len(payload)]

\* an injective map per algorithm that does not preserve order
Scramble(algorithm, e) ==
  IF algorithm = "md5"
  THEN (IF e = 0 THEN 0 ELSE IF e % 2 = 1 THEN e + 1 ELSE e - 1)
  ELSE (IF e % 2 = 0 THEN e + 1 ELSE e - 1)

\* HashObject.hash(payload), and new() / update()* / hexdigest() over the
\* concatenation payload of the updates
HexDigest(algorithm, payload) ==
  2 * Scramble(algorithm, Enc(payload)) + AlgIndex(algorithm)

\* ----------------------------------------------------------- FileVersion
\* the loop of FileVersion.build over _processLine: lineHash[theHash] = lineno
RECURSIVE ProcessLines(_, _, _)
ProcessLines(hashobj, lines, n) ==
  IF n = 0 THEN <<>>
  ELSE LET prev == ProcessLines(hashobj, lines, n - 1)
           theHash == HexDigest(hashobj, <<lines[n]>>)
       IN [h \in (DOMAIN prev) \cup {theHash} |->
             IF h = theHash THEN n ELSE prev[h]]

FileVersionBuild(filePath, hashAlgorithm, hashobj, lines) ==
  [filePath |-> filePath,
   version |-> HexDigest(hashobj, lines),
   lineHash |-> ProcessLines(hashobj, lines, Len(lines)),
   hashAlgorithm |-> hashAlgorithm]

FileVersionNormalize(fv) ==
  [filePath |-> fv.filePath, version |-> fv.version, lineHash |-> fv.lineHash]

\* ---------------------------------------------------------- VersionTable
\* sorted(fileList)
SortedPaths(fileList) ==
  SelectSeq(PathOrder, LAMBDA p : p \in Range(fileList))

VersionTableInit(fileList, hashAlgorithm) ==
  [fileList |-> SortedPaths(fileList),
   hashAlgorithm |-> hashAlgorithm,
   fileVersions |-> None,
   version |-> NoneVersion]

\* os.path.exists(filePath)
Exists(d, filePath) == d[filePath].exists

\* the bytes fed to the table's shared hasher: every line of every existing
\* file, in fileList order
RECURSIVE AllLines(_, _)
AllLines(fileList, d) ==
  IF fileList = <<>> THEN <<>>
  ELSE (IF Exists(d, Head(fileList)) THEN d[Head(fileList)].lines ELSE <<>>)
         \o AllLines(Tail(fileList), d)

VersionTableBuild(table, hashobj, d) ==
  [table EXCEPT
     !.fileVersions =
        [p \in {q \in Range(table.fileList) : Exists(d, q)} |->
           FileVersionBuild(p, table.hashAlgorithm, hashobj, d[p].lines)],
     !.version = HexDigest(hashobj, AllLines(table.fileList, d))]

VersionTableNormalize(table) ==
  [version |-> table.version,
   hashAlgorithm |-> table.hashAlgorithm,
   fileList |-> table.fileList,
   files |-> [p \in DOMAIN table.fileVersions |->
                FileVersionNormalize(table.fileVersions[p])]]

\* VersionTableRead without the os.path.exists test on each recorded file
VersionTableReadEveryFile(table, obj, d) ==
  [fileList |-> obj.fileList,
   hashAlgorithm |-> obj.hashAlgorithm,
   version |-> obj.version,
   fileVersions |->
     [p \in DOMAIN obj.files |->
        [filePath |-> obj.files[p].filePath,
         version |-> obj.files[p].version,
         lineHash |-> obj.files[p].lineHash,
         hashAlgorithm |-> obj.hashAlgorithm]]]

VersionTableRead(table, obj, d) ==
  [fileList |-> obj.fileList,
   hashAlgorithm |-> obj.hashAlgorithm,
   version |-> obj.version,
   fileVersions |->
     [p \in {q \in DOMAIN obj.files : Exists(d, q)} |->
        [filePath |-> obj.files[p].filePath,
         version |-> obj.files[p].version,
         lineHash |-> obj.files[p].lineHash,
         hashAlgorithm |-> obj.hashAlgorithm]]]

\* -------------------------------------------------------- VersionManager
VARIABLES
  disk,      \* filePath -> Absent or File(lines): the tracked directory
  revFile,   \* the record at revisionFileName, or NoRecord
  HASHOBJ,   \* the module global _HASHOBJ: the algorithm of the live provider
  mgr,       \* manager slot -> the VersionManager object, or NoManager
  called,    \* manager slot -> which of read() / build() have run on it
  lastCall,  \* the most recent step: who, which operation, what it raised
  edits      \* how many times the disk has been changed

vars == <<disk, revFile, HASHOBJ, mgr, called, lastCall, edits>>

NoError == "none"
PreconditionError == "Must call read() and build() to compare versions."
AlgorithmMismatch == "read() and build() hash algorithms differ."
TypeError == "TypeError: 'NoneType' object is not subscriptable"
BodyError == "exception raised in the with-block body"

RevisionFileName == "revisions.json"

\* the lists of tracked paths handed to the constructor (any order)
FileLists == {<<>>, <<"a.txt">>, <<"b.txt">>, <<"b.txt", "a.txt">>}

Call(m, op, raised) == [m |-> m, op |-> op, raised |-> raised]

ManagerInit(fileList, hashAlgorithm, write) ==
  [revisionFileName |-> RevisionFileName,
   curVersions |-> VersionTableInit(fileList, hashAlgorithm),
   lastVersions |-> VersionTableInit(<<>>, hashAlgorithm),
   doWrite |-> write,
   diffs |-> None,
   inWith |-> FALSE]

\* read(): nothing to load when the revision file does not exist
ReadResult(mg, rf, d) ==
  IF rf = NoRecord THEN mg
  ELSE [mg EXCEPT !.lastVersions = VersionTableRead(mg.lastVersions, rf, d)]

BuildResult(mg, hashobj, d) ==
  [mg EXCEPT !.curVersions = VersionTableBuild(mg.curVersions, hashobj, d)]

\* write(): the manager after the call (built first when it has no version)
WriteResult(mg, hashobj, d) ==
  IF mg.curVersions.version = NoneVersion THEN BuildResult(mg, hashobj, d) ELSE mg

\* truth value of a VersionTable object: the class defines neither __bool__
\* nor __len__, so every instance is true
Truthy(table) == TRUE

\* sorted(list(S)) for a set of digests
RECURSIVE Sorted(_)
Sorted(S) ==
  IF S = {} THEN <<>>
  ELSE LET least == CHOOSE x \in S : \A y \in S : x <= y
       IN <<least>> \o Sorted(S \ {least})

DiffFile(missing, new, modifiedLines, missingLines) ==
  [missing |-> missing, new |-> new,
   modifiedLines |-> modifiedLines, missingLines |-> missingLines]

\* [tbl[hsh] for hsh in hashes]
LineNumbers(tbl, hashes) == [i \in 1..Len(hashes) |-> tbl[hashes[i]]]

\* OverlapDiff with the two set differences taken the wrong way round
OverlapDiffSwapped(mg, filePath) ==
  LET curLineTbl == mg.curVersions.fileVersions[filePath].lineHash
      lastLineTbl == mg.lastVersions.fileVersions[filePath].lineHash
      curLines == DOMAIN curLineTbl
      lastLines == DOMAIN lastLineTbl
      modifiedLines == Sorted(lastLines \ curLines)
      missingLines == Sorted(curLines \ lastLines)
  IN DiffFile(FALSE, FALSE,
              LineNumbers(lastLineTbl, modifiedLines),
              LineNumbers(curLineTbl, missingLines))

\* the body of compare()'s loop over overlappingFiles, for a path both of
\* whose lookups succeed
OverlapDiff(mg, filePath) ==
  LET curLineTbl == mg.curVersions.fileVersions[filePath].lineHash
      lastLineTbl == mg.lastVersions.fileVersions[filePath].lineHash
      curLines == DOMAIN curLineTbl
      lastLines == DOMAIN lastLineTbl
      modifiedLines == Sorted(curLines \ lastLines)
      missingLines == Sorted(lastLines \ curLines)
  IN DiffFile(FALSE, FALSE,
              LineNumbers(curLineTbl, modifiedLines),
              LineNumbers(lastLineTbl, missingLines))

\* MismatchOutcome with self.diffs reset before the algorithms are compared
MismatchOutcomeAfterReset(mg) ==
  {[mgr |-> [mg EXCEPT !.diffs = <<>>], raised |-> AlgorithmMismatch]}

\* the second check of compare(): raise before anything is assigned
MismatchOutcome(mg) == {[mgr |-> mg, raised |-> AlgorithmMismatch]}

\* compare(): the set of possible outcomes [mgr, raised].  A lookup in
\* curVersions.fileVersions while it is still None raises TypeError in the
\* middle of the loop over a set, whose iteration order is unspecified: the
\* entries written before it are those of any set of paths that do not fail.
CompareOutcomes(mg, d) ==
  LET cur == mg.curVersions
      last == mg.lastVersions
      lastFileSet == Range(last.fileList)
      curFileSet == Range(cur.fileList)
      newFiles == curFileSet \ lastFileSet
      removedFiles == lastFileSet \ curFileSet
      overlappingFiles == curFileSet \cap lastFileSet
      lastHas(p) == p \in DOMAIN last.fileVersions
      failing == {p \in overlappingFiles : lastHas(p) /\ cur.fileVersions = None}
      keyError(p) == ~lastHas(p) \/ p \notin DOMAIN cur.fileVersions
      entry(p) ==
        IF p \in newFiles THEN DiffFile(~Exists(d, p), TRUE, <<>>, <<>>)
        ELSE IF p \in removedFiles THEN DiffFile(TRUE, FALSE, <<>>, <<>>)
        ELSE IF keyError(p) THEN DiffFile(TRUE, TRUE, <<>>, <<>>)
        ELSE OverlapDiff(mg, p)
      diffsOver(S) == [p \in S |-> entry(p)]
  IN IF ~(Truthy(cur) /\ Truthy(last))
     THEN {[mgr |-> mg, raised |-> PreconditionError]}
     ELSE IF cur.hashAlgorithm # last.hashAlgorithm
     THEN MismatchOutcome(mg)
     ELSE IF failing # {}
     THEN {[mgr |-> [mg EXCEPT !.diffs =
                       diffsOver(newFiles \cup removedFiles \cup done)],
            raised |-> TypeError] :
             done \in SUBSET (overlappingFiles \ failing)}
     ELSE {[mgr |-> [mg EXCEPT !.diffs =
                       diffsOver(newFiles \cup removedFiles \cup overlappingFiles)],
            raised |-> NoError]}

hasVersionChanged(mg) == mg.curVersions.version # mg.lastVersions.version

\* the bracketed label versionReport() prints for one entry of diffs
ReportLabel(diffObj) ==
  IF diffObj.missing /\ diffObj.new THEN "[new & missing]"
  ELSE IF diffObj.missing THEN "[missing]"
  ELSE IF diffObj.new THEN "[new]"
  ELSE IF Len(diffObj.modifiedLines) = 0 /\ Len(diffObj.modifiedLines) = 0
  THEN "[unchanged]"
  ELSE "[modified]"

versionReport(mg) == [p \in DOMAIN mg.diffs |-> ReportLabel(mg.diffs[p])]

\* ---------------------------------------------------------------- actions
Init ==
  /\ disk = [p \in Paths |-> Absent]
  /\ revFile = NoRecord
  /\ HASHOBJ = "None"
  /\ mgr = [m \in Managers |-> NoManager]
  /\ called = [m \in Managers |-> {}]
  /\ lastCall = Call("-", "start", NoError)
  /\ edits = 0

\* VersionManager(revisionFileName, fileList, hashAlgorithm, write)
New(m, fileList, hashAlgorithm, write) ==
  /\ HASHOBJ' = hashAlgorithm
  /\ mgr' = [mgr EXCEPT ![m] = ManagerInit(fileList, hashAlgorithm, write)]
  /\ called' = [called EXCEPT ![m] = {}]
  /\ lastCall' = Call(m, "__init__", NoError)
  /\ UNCHANGED <<disk, revFile, edits>>

Read(m) ==
  /\ mgr[m] # NoManager
  /\ mgr' = [mgr EXCEPT ![m] = ReadResult(mgr[m], revFile, disk)]
  /\ called' = [called EXCEPT ![m] = @ \cup {"read"}]
  /\ lastCall' = Call(m, "read", NoError)
  /\ UNCHANGED <<disk, revFile, HASHOBJ, edits>>

Build(m) ==
  /\ mgr[m] # NoManager
  /\ mgr' = [mgr EXCEPT ![m] = BuildResult(mgr[m], HASHOBJ, disk)]
  /\ called' = [called EXCEPT ![m] = @ \cup {"build"}]
  /\ lastCall' = Call(m, "build", NoError)
  /\ UNCHANGED <<disk, revFile, HASHOBJ, edits>>

Write(m) ==
  /\ mgr[m] # NoManager
  /\ LET mg == WriteResult(mgr[m], HASHOBJ, disk)
     IN /\ mgr' = [mgr EXCEPT ![m] = mg]
        /\ revFile' = VersionTableNormalize(mg.curVersions)
        /\ called' = [called EXCEPT ![m] =
                        IF mg = mgr[m] THEN @ ELSE @ \cup {"build"}]
  /\ lastCall' = Call(m, "write", NoError)
  /\ UNCHANGED <<disk, HASHOBJ, edits>>

Compare(m) ==
  /\ mgr[m] # NoManager
  /\ \E o \in CompareOutcomes(mgr[m], disk) :
       /\ mgr' = [mgr EXCEPT ![m] = o.mgr]
       /\ lastCall' = Call(m, "compare", o.raised)
  /\ UNCHANGED <<disk, revFile, HASHOBJ, called, edits>>

\* __enter__: read(), build(), compare(); an exception leaves the with
\* statement without __exit__ being called
Enter(m) ==
  /\ mgr[m] # NoManager
  /\ ~mgr[m].inWith
  /\ LET mg == BuildResult(ReadResult(mgr[m], revFile, disk), HASHOBJ, disk)
     IN \E o \in CompareOutcomes(mg, disk) :
          /\ mgr' = [mgr EXCEPT ![m] =
                       [o.mgr EXCEPT !.inWith = (o.raised = NoError)]]
          /\ lastCall' = Call(m, "__enter__", o.raised)
  /\ called' = [called EXCEPT ![m] = @ \cup {"read", "build"}]
  /\ UNCHANGED <<disk, revFile, HASHOBJ, edits>>

\* __exit__, after the body returned or raised
Exit(m, bodyRaised) ==
  /\ mgr[m] # NoManager
  /\ mgr[m].inWith
  /\ IF mgr[m].revisionFileName # "" /\ (mgr[m].doWrite \/ revFile # NoRecord)
     THEN LET mg == WriteResult(mgr[m], HASHOBJ, disk)
          IN /\ mgr' = [mgr EXCEPT ![m] = [mg EXCEPT !.inWith = FALSE]]
             /\ revFile' = VersionTableNormalize(mg.curVersions)
     ELSE /\ mgr' = [mgr EXCEPT ![m].inWith = FALSE]
          /\ revFile' = revFile
  /\ lastCall' = Call(m, "__exit__", IF bodyRaised THEN BodyError ELSE NoError)
  /\ UNCHANGED <<disk, HASHOBJ, called, edits>>

\* the environment creates, rewrites or deletes a tracked file
EditFile(filePath, content) ==
  /\ edits < MaxEdits
  /\ content # disk[filePath]
  /\ disk' = [disk EXCEPT ![filePath] = content]
  /\ edits' = edits + 1
  /\ lastCall' = Call("-", "edit", NoError)
  /\ UNCHANGED <<revFile, HASHOBJ, mgr, called>>

\* the contents the life-cycle specifications write to a file
FewContents == {Absent, File(<<>>), File(<<1>>)}

\* one manager, its methods called in any order, over two tracked files
Next ==
  \/ \E fl \in FileLists : New("m1", fl, "md5", FALSE)
  \/ Read("m1")
  \/ Build("m1")
  \/ Compare("m1")
  \/ Write("m1")
  \/ \E p \in Paths, c \in Contents : EditFile(p, c)

Spec == Init /\ [][Next]_vars

\* successive with-blocks over the tracked files, the files changing in between
NextRuns ==
  \/ New("m1", <<"b.txt", "a.txt">>, "md5", TRUE)
  \/ Enter("m1")
  \/ \E r \in BOOLEAN : Exit("m1", r)
  \/ Read("m1")
  \/ \E c \in Contents : EditFile("a.txt", c)
  \/ \E c \in {Absent, File(<<1>>)} : EditFile("b.txt", c)

SpecRuns == Init /\ [][NextRuns]_vars

\* one manager constructed with either algorithm, with or without write=True,
\* used through its methods and as a context manager
NextLifecycle ==
  \/ \E alg \in Algorithms, w \in BOOLEAN : New("m1", <<"a.txt">>, alg, w)
  \/ Read("m1")
  \/ Build("m1")
  \/ Compare("m1")
  \/ Enter("m1")
  \/ \E r \in BOOLEAN : Exit("m1", r)
  \/ \E c \in FewContents : EditFile("a.txt", c)

SpecLifecycle == Init /\ [][NextLifecycle]_vars

\* several managers alive in one process
NextProcess ==
  \/ \E m \in Managers, alg \in Algorithms : New(m, <<"a.txt">>, alg, FALSE)
  \/ \E m \in Managers : Build(m)
  \/ \E c \in FewContents : EditFile("a.txt", c)

SpecProcess == Init /\ [][NextProcess]_vars

\* ----------------------------------------------------------------- claims
\* compare() on manager m has just returned without raising
Compared(m) ==
  /\ mgr[m] # NoManager
  /\ lastCall.m = m
  /\ lastCall.op \in {"compare", "__enter__"}
  /\ lastCall.raised = NoError

\* filePath has a fingerprint in both snapshots of manager m
InBoth(m, filePath) ==
  /\ filePath \in DOMAIN mgr[m].curVersions.fileVersions
  /\ filePath \in DOMAIN mgr[m].lastVersions.fileVersions

IsAscending(s) == \A i \in 1..Len(s) : \A j \in 1..Len(s) : i < j => s[i] < s[j]

\* C1: for every path with a fingerprint in both snapshots, compare() yields
\* missing = false, new = false, the added lines are exactly the current
\* line numbers of the digests only the current snapshot has, the removed
\* lines exactly the last-snapshot line numbers of the digests only the last
\* snapshot has, and both sequences are in ascending line-number order.
C1_LineNumbersExactAndAscending ==
  \A m \in Managers : Compared(m) =>
    \A p \in Paths : InBoth(m, p) =>
      LET curTbl == mgr[m].curVersions.fileVersions[p].lineHash
          lastTbl == mgr[m].lastVersions.fileVersions[p].lineHash
          added == (DOMAIN curTbl) \ (DOMAIN lastTbl)
          removed == (DOMAIN lastTbl) \ (DOMAIN curTbl)
          diff == mgr[m].diffs[p]
      IN /\ ~diff.missing /\ ~diff.new
         /\ Len(diff.modifiedLines) = Cardinality(added)
         /\ Range(diff.modifiedLines) = {curTbl[h] : h \in added}
         /\ Len(diff.missingLines) = Cardinality(removed)
         /\ Range(diff.missingLines) = {lastTbl[h] : h \in removed}
         /\ IsAscending(diff.modifiedLines)
         /\ IsAscending(diff.missingLines)

\* manager m's lastVersions is what read() loads from the record now on disk,
\* and its curVersions what build() computes from the files now on disk
LoadedAndBuilt(m) ==
  /\ revFile # NoRecord
  /\ {"read", "build"} \subseteq called[m]
  /\ mgr[m].lastVersions = VersionTableRead(mgr[m].lastVersions, revFile, disk)
  /\ mgr[m].curVersions =
       VersionTableBuild(mgr[m].curVersions, mgr[m].curVersions.hashAlgorithm, disk)

\* C2: with the same tracked paths in both runs, a file that had a
\* fingerprint in the persisted snapshot and was deleted before the next
\* read(), build() and compare() is reported missing = true, new = false.
C2_DeletedFileMissingNotNew ==
  \A m \in Managers : (Compared(m) /\ LoadedAndBuilt(m)) =>
    \A p \in Paths :
      ( /\ mgr[m].curVersions.fileList = mgr[m].lastVersions.fileList
        /\ p \in DOMAIN revFile.files
        /\ ~Exists(disk, p) )
      => (mgr[m].diffs[p].missing /\ ~mgr[m].diffs[p].new)

\* C4: compare() on a manager on which read() and build() have not both run
\* raises the precondition error; compare() succeeds only after both.
C4_CompareNeedsReadAndBuild ==
  \A m \in Managers :
    (mgr[m] # NoManager /\ lastCall.m = m /\ lastCall.op = "compare") =>
      /\ ~({"read", "build"} \subseteq called[m])
           => lastCall.raised = PreconditionError
      /\ lastCall.raised = NoError => {"read", "build"} \subseteq called[m]

\* C9: after compare(), a file with fingerprints in both snapshots is
\* reported [unchanged] if and only if its added-line list and its
\* removed-line list are both empty.
C9_UnchangedIffNoLineDiffs ==
  \A m \in Managers : Compared(m) =>
    \A p \in Paths : InBoth(m, p) =>
      ( versionReport(mgr[m])[p] = "[unchanged]"
        <=> ( mgr[m].diffs[p].modifiedLines = <<>>
              /\ mgr[m].diffs[p].missingLines = <<>> ) )

\* C10: after read() loaded a record and build() ran, if hasVersionChanged()
\* is false then compare() reports no change for every tracked file that
\* exists on disk.
C10_SameVersionMeansNoDiff ==
  \A m \in Managers :
    (Compared(m) /\ LoadedAndBuilt(m) /\ ~hasVersionChanged(mgr[m])) =>
      \A p \in Range(mgr[m].curVersions.fileList) :
        Exists(disk, p) => mgr[m].diffs[p] = DiffFile(FALSE, FALSE, <<>>, <<>>)

\* the last snapshot of filePath was taken of the lines old, the current one
\* of old with the one line appended
AppendedOneLine(m, filePath, old, line) ==
  LET alg == mgr[m].curVersions.hashAlgorithm
      lastFile == mgr[m].lastVersions.fileVersions[filePath]
      curFile == mgr[m].curVersions.fileVersions[filePath]
      new == Append(old, line)
  IN /\ lastFile.version = HexDigest(alg, old)
     /\ lastFile.lineHash = ProcessLines(alg, old, Len(old))
     /\ curFile.version = HexDigest(alg, new)
     /\ curFile.lineHash = ProcessLines(alg, new, Len(new))

\* C3 as stated: when the new file is the old one with one line appended,
\* compare() reports exactly one added line, the appended line's number, and
\* no removed line, whatever the appended line's content.
C3_AppendReportsOneAddedLine ==
  \A m \in Managers : Compared(m) =>
    \A p \in Paths : InBoth(m, p) =>
      \A old \in SeqsUpTo(MaxLines - 1), line \in LineContents :
        AppendedOneLine(m, p, old, line) =>
          /\ mgr[m].diffs[p].modifiedLines = <<Len(old) + 1>>
          /\ mgr[m].diffs[p].missingLines = <<>>

\* C3 amended: when the new file is the old one with one line appended,
\* compare() reports no removed line, and exactly one added line, the
\* appended line's number, if the line's content occurs nowhere in the old
\* file; if it does occur there, compare() reports no added line.
C3_AppendReportsNewContentOnly ==
  \A m \in Managers : Compared(m) =>
    \A p \in Paths : InBoth(m, p) =>
      \A old \in SeqsUpTo(MaxLines - 1), line \in LineContents :
        AppendedOneLine(m, p, old, line) =>
          /\ ~mgr[m].diffs[p].missing /\ ~mgr[m].diffs[p].new
          /\ mgr[m].diffs[p].modifiedLines =
               (IF line \in Range(old) THEN <<>> ELSE <<Len(old) + 1>>)
          /\ mgr[m].diffs[p].missingLines = <<>>

C3_Witness ==
  \E m \in Managers : Compared(m) /\
    \E p \in Paths : InBoth(m, p) /\
      \E old \in SeqsUpTo(MaxLines - 1), line \in LineContents :
        /\ old # <<>>
        /\ line \notin Range(old)
        /\ AppendedOneLine(m, p, old, line)
        /\ mgr[m].diffs[p].modifiedLines = <<Len(old) + 1>>

\* the table loaded reproduces the table T for the files of disk d
RoundTripOK(T, loaded, d) ==
  /\ loaded.hashAlgorithm = T.hashAlgorithm
  /\ loaded.version = T.version
  /\ loaded.fileList = T.fileList
  /\ DOMAIN loaded.fileVersions \subseteq Range(T.fileList)
  /\ \A p \in Range(T.fileList) :
       IF Exists(d, p)
       THEN /\ p \in DOMAIN loaded.fileVersions <=> p \in DOMAIN T.fileVersions
            /\ p \in DOMAIN T.fileVersions =>
                 /\ loaded.fileVersions[p].version = T.fileVersions[p].version
                 /\ loaded.fileVersions[p].lineHash = T.fileVersions[p].lineHash
       ELSE p \notin DOMAIN loaded.fileVersions

\* read() on manager m has just loaded the record its built table T wrote
ReadBackOwnRecord(m) ==
  /\ mgr[m] # NoManager
  /\ lastCall.m = m
  /\ lastCall.op \in {"read", "__enter__"}
  /\ mgr[m].curVersions.version # NoneVersion
  /\ revFile = VersionTableNormalize(mgr[m].curVersions)

\* C7: loading the record of a built table T reproduces T's hashAlgorithm,
\* version and fileList and, for every tracked path still on disk, the same
\* file digest and digest-to-line map; a path no longer on disk gets no
\* fingerprint and stays in fileList.
C7_RoundTrip ==
  \A m \in Managers : ReadBackOwnRecord(m) =>
    RoundTripOK(mgr[m].curVersions, mgr[m].lastVersions, disk)

C7_Witness ==
  \E m \in Managers : ReadBackOwnRecord(m) /\
    \E p \in DOMAIN mgr[m].curVersions.fileVersions :
      /\ ~Exists(disk, p)
      /\ mgr[m].curVersions.fileVersions[p].lineHash # <<>>
      /\ p \in Range(mgr[m].lastVersions.fileList)

\* C5: when the current snapshot's hashAlgorithm differs from that of the
\* loaded last snapshot, compare() raises the algorithm-mismatch error and
\* leaves the manager's diffs exactly as they were before the call.
C5_MismatchRaisesAndKeepsDiffs ==
  [][ \A m \in Managers :
        ( /\ mgr'[m] # NoManager
          /\ lastCall'.m = m
          /\ lastCall'.op \in {"compare", "__enter__"}
          /\ mgr'[m].curVersions.hashAlgorithm # mgr'[m].lastVersions.hashAlgorithm )
        => ( /\ lastCall'.raised = AlgorithmMismatch
             /\ mgr'[m].diffs = mgr[m].diffs ) ]_vars

C5_Witness ==
  \E m \in Managers :
    /\ mgr[m] # NoManager
    /\ lastCall = Call(m, "compare", AlgorithmMismatch)
    /\ mgr[m].curVersions.hashAlgorithm # mgr[m].lastVersions.hashAlgorithm
    /\ mgr[m].diffs # None

\* C6: in a with-block for which write=True was given or a record exists at
\* the location, write() of the current snapshot has run on every exit path:
\* after __exit__, and after __enter__ failed in read(), build() or compare().
C6_WriteOnEveryExitPath ==
  \A m \in Managers :
    ( /\ mgr[m] # NoManager
      /\ lastCall.m = m
      /\ \/ lastCall.op = "__exit__"
         \/ (lastCall.op = "__enter__" /\ lastCall.raised # NoError)
      /\ (mgr[m].doWrite \/ revFile # NoRecord) )
    => ( /\ mgr[m].curVersions.version # NoneVersion
         /\ revFile = VersionTableNormalize(mgr[m].curVersions) )

\* C8: every digest of a table that build() has just filled was computed
\* with the algorithm the table records in hashAlgorithm.
C8_DigestsUseRecordedAlgorithm ==
  \A m \in Managers :
    (mgr[m] # NoManager /\ lastCall = Call(m, "build", NoError)) =>
      mgr[m].curVersions =
        VersionTableBuild(mgr[m].curVersions,
                          mgr[m].curVersions.hashAlgorithm, disk)

====
